---------------------------- MODULE Spec2Model ----------------------------
(***************************************************************************)
(* A model of three scripts of the repository:                             *)
(*   - python/demo/mixed-elasticity-sc/static-condensation-elasticity.py:  *)
(*     the condensed tabulation kernel tabulate_condensed_tensor_A and the *)
(*     assembly built on it;                                               *)
(*   - test/unit/parameter/python/test.py: two tests that share one file;  *)
(*   - python/test/unit/mesh/test_sub_domain.py: marking of mesh entities. *)
(*                                                                         *)
(* Scalars are exact rationals <<numerator, denominator>> (denominator     *)
(* > 0, lowest terms): the demo's arithmetic is floating point and its     *)
(* checks are "to tolerance"; the model states them exactly.               *)
(***************************************************************************)
EXTENDS Integers, Sequences, FiniteSets, TLC

(***************************************************************************)
(* Exact rational arithmetic.                                              *)
(***************************************************************************)
Abs(x) == IF x < 0 THEN -x ELSE x

RECURSIVE Gcd(_, _)
Gcd(a, b) == IF b = 0 THEN a ELSE Gcd(b, a % b)

Rat(n, d) ==
  LET g == Gcd(Abs(n), Abs(d))
      s == IF d < 0 THEN -1 ELSE 1
  IN  <<(s * n) \div g, (s * d) \div g>>

Zero == <<0, 1>>
One == <<1, 1>>
Int2Rat(n) == <<n, 1>>

RAdd(p, q) == Rat(p[1] * q[2] + q[1] * p[2], p[2] * q[2])
RNeg(p) == <<-p[1], p[2]>>
RSub(p, q) == RAdd(p, RNeg(q))
RMul(p, q) == Rat(p[1] * q[1], p[2] * q[2])
RDiv(p, q) == Rat(p[1] * q[2], p[2] * q[1])
RAbs(p) == <<Abs(p[1]), p[2]>>
RLess(p, q) == p[1] * q[2] < q[1] * p[2]

(***************************************************************************)
(* Dense matrices: a sequence of rows, each a sequence of scalars.         *)
(***************************************************************************)
Rows(M) == Len(M)
Cols(M) == Len(M[1])
Shape(M) == <<Rows(M), Cols(M)>>

\* numpy.zeros((r, c))
Zeros(r, c) == [i \in 1..r |-> [j \in 1..c |-> Zero]]

Fill(r, c, v) == [i \in 1..r |-> [j \in 1..c |-> v]]

MatAdd(M, N) == [i \in 1..Rows(M) |-> [j \in 1..Cols(M) |-> RAdd(M[i][j], N[i][j])]]

\* unary minus on an array
MatNeg(M) == [i \in 1..Rows(M) |-> [j \in 1..Cols(M) |-> RNeg(M[i][j])]]

RECURSIVE DotFrom(_, _, _, _, _)
DotFrom(M, N, i, j, k) ==
  IF k > Cols(M) THEN Zero
  ELSE RAdd(RMul(M[i][k], N[k][j]), DotFrom(M, N, i, j, k + 1))

\* the same row, the same matrix, written out entry by entry: an array holds
\* values, not the expressions they came from
RECURSIVE RowTuple(_, _)
RowTuple(r, j) == IF j > Len(r) THEN <<>> ELSE <<r[j]>> \o RowTuple(r, j + 1)
RECURSIVE MatTuple(_, _)
MatTuple(M, i) == IF i > Len(M) THEN <<>> ELSE <<RowTuple(M[i], 1)>> \o MatTuple(M, i + 1)

\* the @ operator
MatMul(M, N) ==
  MatTuple([i \in 1..Rows(M) |-> [j \in 1..Cols(N) |-> DotFrom(M, N, i, j, 1)]], 1)

(***************************************************************************)
(* numpy.linalg.solve(a, b): LAPACK gesv, an LU factorisation with partial *)
(* pivoting followed by forward and back substitution.  A zero pivot makes *)
(* the call raise LinAlgError.                                             *)
(***************************************************************************)
Augment(a, b) == [i \in 1..Rows(a) |-> a[i] \o b[i]]

\* (mutant) no row exchange: the diagonal entry is taken as the pivot
PivotRowNone(M, k, n) == k

\* the first row among k..n whose entry in column k is largest in magnitude
PivotRow(M, k, n) ==
  CHOOSE p \in k..n :
    \A i \in k..n :
      \/ RLess(RAbs(M[i][k]), RAbs(M[p][k]))
      \/ (RAbs(M[i][k]) = RAbs(M[p][k]) /\ p <= i)

SwapRows(M, k, p) ==
  [i \in 1..Rows(M) |-> IF i = k THEN M[p] ELSE IF i = p THEN M[k] ELSE M[i]]

\* subtract from every row below k the multiple of row k that clears column k
Eliminate(M, k) ==
  [i \in 1..Rows(M) |->
     IF i <= k THEN M[i]
     ELSE LET f == RDiv(M[i][k], M[k][k])
          IN  [j \in 1..Cols(M) |-> RSub(M[i][j], RMul(f, M[k][j]))]]

RECURSIVE Factor(_, _, _)
Factor(M, k, n) ==
  IF k > n THEN [ok |-> TRUE, M |-> M]
  ELSE LET p == PivotRow(M, k, n)
       IN  IF M[p][k] = Zero
           THEN [ok |-> FALSE, M |-> M]
           ELSE Factor(MatTuple(Eliminate(SwapRows(M, k, p), k), 1), k + 1, n)

RECURSIVE UpperDot(_, _, _, _, _, _)
UpperDot(U, X, i, j, k, n) ==
  IF k > n THEN Zero
  ELSE RAdd(RMul(U[i][k], X[k][j]), UpperDot(U, X, i, j, k + 1, n))

RECURSIVE BackSubstitute(_, _, _, _, _)
BackSubstitute(U, n, m, i, X) ==
  IF i = 0 THEN X
  ELSE LET row == RowTuple([j \in 1..m |->
                     RDiv(RSub(U[i][n + j], UpperDot(U, X, i, j, i + 1, n)), U[i][i])], 1)
       IN  BackSubstitute(U, n, m, i - 1, [X EXCEPT ![i] = row])

Solve(a, b) ==
  LET n == Rows(a)
      m == Cols(b)
      f == Factor(MatTuple(Augment(a, b), 1), 1, n)
  IN  IF f.ok
      THEN [ok |-> TRUE, X |-> BackSubstitute(f.M, n, m, n, Zeros(n, m))]
      ELSE [ok |-> FALSE, X |-> Zeros(n, m)]

\* M without row r and column c
Minor(M, r, c) ==
  [i \in 1..(Rows(M) - 1) |->
     [j \in 1..(Cols(M) - 1) |->
        M[IF i < r THEN i ELSE i + 1][IF j < c THEN j ELSE j + 1]]]

Signed(i, j, v) == IF (i + j) % 2 = 0 THEN v ELSE RNeg(v)

\* determinant by expansion along the first row
RECURSIVE Det(_)
RECURSIVE DetFrom(_, _)
DetFrom(M, c) ==
  IF c > Cols(M) THEN Zero
  ELSE RAdd(RMul(Signed(1, c, M[1][c]), Det(Minor(M, 1, c))), DetFrom(M, c + 1))
Det(M) == IF Rows(M) = 1 THEN M[1][1] ELSE DetFrom(M, 1)

\* the inverse as the adjugate over the determinant
Inverse(M) ==
  IF Rows(M) = 1 THEN <<<<RDiv(One, M[1][1])>>>>
  ELSE [i \in 1..Rows(M) |->
          [j \in 1..Cols(M) |-> RDiv(Signed(i, j, Det(Minor(M, j, i))), Det(M))]]

IsSingular(M) == Det(M) = Zero

(***************************************************************************)
(* The state of the three scripts.                                         *)
(***************************************************************************)
\* static-condensation-elasticity.py: the tabulation callback
VARIABLES
  Ssize, Usize,   \* local dofmap sizes (module globals)
  pc,             \* per invocation: where tabulate_condensed_tensor_A stands
  callerData,     \* per invocation: the cell data the caller passes in
  A_,             \* per invocation: the caller's output buffer
  entry,          \* per invocation: callerData and A_ as they were at the call
  A00, A01, A10,  \* the local blocks, per frame
  X,              \* the value of numpy.linalg.solve(A00, A01), per frame
  kcalls,         \* per invocation: the kernel calls made, with their arguments
  raised,         \* per invocation: the exception pending inside the callback
  seen,           \* per invocation: what the caller observes when the call ends
  stderr          \* per invocation: what the callback wrapper printed

kvars == <<Ssize, Usize, pc, callerData, A_, entry, A00, A01, A10, X, kcalls,
           raised, seen, stderr>>

\* test/unit/parameter/python/test.py
VARIABLES
  order,     \* the order in which the test runner runs the two tests
  tnum,      \* per process: the index in order of the test it is running
  tpc,       \* per process: where it stands in that test
  file,      \* test_parameters.xml: whose parameters it holds, and whether whole
  bar,       \* per process: the number of barriers it has entered
  p1         \* per process and test: what  f1 >> p1  read

pvars == <<order, tnum, tpc, file, bar, p1>>

\* python/test/unit/mesh/test_sub_domain.py: test_creation_and_marking
VARIABLES
  msize,     \* the number of MPI processes the test runs on
  mdim,      \* dim: 1, 2, 3 for UnitIntervalMesh, UnitSquareMesh, UnitCubeMesh
  maxis,     \* the axis along which the current mesh is distributed
  pairIx,    \* the index in subdomain_pairs of (left, right)
  tIx,       \* the index in the list of (t_dim, f_dim)
  mpc,       \* where the test stands
  f,         \* per process: the entities of the mesh function holding 1 and 2
  failed     \* an assertion of the test has failed

mvars == <<msize, mdim, maxis, pairIx, tIx, mpc, f, failed>>

\* static-condensation-elasticity.py: the two global assemblies
VARIABLES
  amesh,     \* the mesh: vertex coordinates and cells
  apc,       \* where the script stands
  acell,     \* the cell the running assembly has come to
  A_cond,    \* the matrix assembled through the condensation callback
  A,         \* the matrix assembled from the displacement form
  asserted   \* the outcome of the assertion of line 178

avars == <<amesh, apc, acell, A_cond, A, asserted>>

vars == <<kvars, pvars, mvars, avars>>

\* what the steps of one script leave alone
notKernel == <<pvars, mvars, avars>>
notParams == <<kvars, mvars, avars>>
notMarking == <<kvars, pvars, avars>>
notAssembly == <<pvars, mvars>>

(***************************************************************************)
(* Bounds of the model.                                                    *)
(***************************************************************************)
\* entries of the abstract local tensors range over 0..MaxVal
MaxVal == 2

Vals == {Int2Rat(v) : v \in 0..MaxVal}

\* the invocations that may be in progress at once
Threads == {"t1", "t2"}

\* local dimensions (Ssize, Usize) of the abstract element pairs
LocalDims == {<<2, 1>>, <<1, 2>>}

Mats(r, c) == [1..r -> [1..c -> Vals]]

(***************************************************************************)
(* The data the assembly routine hands to the tabulation callback for one  *)
(* cell (w_, c_, coords_, entity_local_index, permutation, reflections,    *)
(* rotations).  The three block kernels are compiled, deterministic        *)
(* functions of this data; a cell is identified here with the three local  *)
(* tensors the kernels tabulate from it.                                   *)
(***************************************************************************)
Cells(s, u) == [K00 : Mats(s, s), K01 : Mats(s, u), K10 : Mats(u, s)]

\* cells whose self-block varies on the diagonal only, all other entries one
PlainCells(s, u) ==
  {[K00 |-> [i \in 1..s |-> [j \in 1..s |-> IF i = j THEN d[i] ELSE One]],
    K01 |-> Fill(s, u, One),
    K10 |-> Fill(u, s, One)] : d \in [1..s -> Vals]}

NoCell == [K00 |-> <<>>, K01 |-> <<>>, K10 |-> <<>>]
NoMat == <<>>

(***************************************************************************)
(* tabulate_condensed_tensor_A                                             *)
(***************************************************************************)
\* (mutant) the local blocks live in one place shared by all invocations
FrameShared(t) == "t1"

\* every invocation has a frame of its own: A00, A01, A10 are locals
Frame(t) == t

\* the arguments handed on to kernel00, kernel01 and kernel10
Args00(t) == callerData[t]
Args01(t) == callerData[t]
Args10(t) == callerData[t]

\* (mutant) the second block is not zeroed before its kernel runs
Alloc01Dirty == Fill(Ssize, Usize, One)

\* the fresh local blocks
Alloc00 == Zeros(Ssize, Ssize)
Alloc01 == Zeros(Ssize, Usize)
Alloc10 == Zeros(Usize, Ssize)

\* a compiled block kernel adds its local tensor into the buffer it is given
kernel00(buf, args) == MatAdd(buf, args.K00)
kernel01(buf, args) == MatAdd(buf, args.K01)
kernel10(buf, args) == MatAdd(buf, args.K10)

\* (mutant) the operands of the product exchanged
CondensedSwapped(a00, a01, a10) ==
  LET r == Solve(a00, a01)
  IN  [ok |-> r.ok, X |-> r.X, A |-> MatNeg(MatMul(r.X, a10))]

\* the right-hand side of  A[:, :] = - A10 @ numpy.linalg.solve(A00, A01)
Condensed(a00, a01, a10) ==
  LET r == Solve(a00, a01)
  IN  [ok |-> r.ok, X |-> r.X, A |-> MatNeg(MatMul(a10, r.X))]

\* what the output buffer may hold when the caller makes the call
BufferBefore == {Zeros(Usize, Usize), Fill(Usize, Usize, Int2Rat(MaxVal))}

KStart(dims) ==
  /\ \E d \in dims : Ssize = d[1] /\ Usize = d[2]
  /\ pc = [t \in Threads |-> "idle"]
  /\ callerData = [t \in Threads |-> NoCell]
  /\ A_ = [t \in Threads |-> Zeros(Usize, Usize)]
  /\ entry = [t \in Threads |-> [data |-> NoCell, A |-> Zeros(Usize, Usize)]]
  /\ A00 = [t \in Threads |-> NoMat]
  /\ A01 = [t \in Threads |-> NoMat]
  /\ A10 = [t \in Threads |-> NoMat]
  /\ X = [t \in Threads |-> NoMat]
  /\ kcalls = [t \in Threads |-> <<>>]
  /\ raised = [t \in Threads |-> "none"]
  /\ seen = [t \in Threads |-> "nothing"]
  /\ stderr = [t \in Threads |-> "none"]

KInit == KStart(LocalDims)

\* the assembly routine calls the callback for one cell
Call(t, cells, bufs) ==
  /\ pc[t] = "idle"
  /\ \E el \in cells, buf \in bufs :
       /\ callerData' = [callerData EXCEPT ![t] = el]
       /\ A_' = [A_ EXCEPT ![t] = buf]
       /\ entry' = [entry EXCEPT ![t] = [data |-> el, A |-> buf]]
  /\ pc' = [pc EXCEPT ![t] = "l129"]
  /\ kcalls' = [kcalls EXCEPT ![t] = <<>>]
  /\ raised' = [raised EXCEPT ![t] = "none"]
  /\ seen' = [seen EXCEPT ![t] = "nothing"]
  /\ stderr' = [stderr EXCEPT ![t] = "none"]
  /\ UNCHANGED <<Ssize, Usize, A00, A01, A10, X>>
  /\ UNCHANGED notKernel

Tabulate00(t) ==
  /\ pc[t] = "l129"
  /\ A00' = [A00 EXCEPT ![Frame(t)] = kernel00(Alloc00, Args00(t))]
  /\ kcalls' = [kcalls EXCEPT ![t] =
                  Append(@, [kernel |-> "kernel00", buf |-> Alloc00, args |-> Args00(t)])]
  /\ pc' = [pc EXCEPT ![t] = "l133"]
  /\ UNCHANGED <<Ssize, Usize, callerData, A_, entry, A01, A10, X, raised, seen, stderr>>
  /\ UNCHANGED notKernel

Tabulate01(t) ==
  /\ pc[t] = "l133"
  /\ A01' = [A01 EXCEPT ![Frame(t)] = kernel01(Alloc01, Args01(t))]
  /\ kcalls' = [kcalls EXCEPT ![t] =
                  Append(@, [kernel |-> "kernel01", buf |-> Alloc01, args |-> Args01(t)])]
  /\ pc' = [pc EXCEPT ![t] = "l137"]
  /\ UNCHANGED <<Ssize, Usize, callerData, A_, entry, A00, A10, X, raised, seen, stderr>>
  /\ UNCHANGED notKernel

Tabulate10(t) ==
  /\ pc[t] = "l137"
  /\ A10' = [A10 EXCEPT ![Frame(t)] = kernel10(Alloc10, Args10(t))]
  /\ kcalls' = [kcalls EXCEPT ![t] =
                  Append(@, [kernel |-> "kernel10", buf |-> Alloc10, args |-> Args10(t)])]
  /\ pc' = [pc EXCEPT ![t] = "l142"]
  /\ UNCHANGED <<Ssize, Usize, callerData, A_, entry, A00, A01, X, raised, seen, stderr>>
  /\ UNCHANGED notKernel

\* line 142: the solve raises on a singular A00, otherwise the output is written
Condense(t) ==
  /\ pc[t] = "l142"
  /\ LET r == Condensed(A00[Frame(t)], A01[Frame(t)], A10[Frame(t)])
     IN  IF r.ok
         THEN /\ X' = [X EXCEPT ![Frame(t)] = r.X]
              /\ A_' = [A_ EXCEPT ![t] = r.A]
              /\ UNCHANGED raised
         ELSE /\ raised' = [raised EXCEPT ![t] = "LinAlgError"]
              /\ UNCHANGED <<X, A_>>
  /\ pc' = [pc EXCEPT ![t] = "exit"]
  /\ UNCHANGED <<Ssize, Usize, callerData, entry, A00, A01, A10, kcalls, seen, stderr>>
  /\ UNCHANGED notKernel

(***************************************************************************)
(* The callback is a numba.cfunc of C signature void(...): the caller gets *)
(* no return value and no exception.  An exception pending when the        *)
(* function ends is printed by the wrapper and the call returns normally.  *)
(***************************************************************************)
CallerSees(exc) == "returned"

Return(t) ==
  /\ pc[t] = "exit"
  /\ seen' = [seen EXCEPT ![t] = CallerSees(raised[t])]
  /\ stderr' = [stderr EXCEPT ![t] = raised[t]]
  /\ pc' = [pc EXCEPT ![t] = "returned"]
  \* the frame goes away with its locals
  /\ A00' = [A00 EXCEPT ![Frame(t)] = NoMat]
  /\ A01' = [A01 EXCEPT ![Frame(t)] = NoMat]
  /\ A10' = [A10 EXCEPT ![Frame(t)] = NoMat]
  /\ X' = [X EXCEPT ![Frame(t)] = NoMat]
  /\ UNCHANGED <<Ssize, Usize, callerData, A_, entry, kcalls, raised>>
  /\ UNCHANGED notKernel

\* the caller has taken the local tensor and is ready for its next cell
Taken(t) ==
  /\ pc[t] = "returned"
  /\ pc' = [pc EXCEPT ![t] = "idle"]
  /\ callerData' = [callerData EXCEPT ![t] = NoCell]
  /\ A_' = [A_ EXCEPT ![t] = Zeros(Usize, Usize)]
  /\ entry' = [entry EXCEPT ![t] = [data |-> NoCell, A |-> Zeros(Usize, Usize)]]
  /\ kcalls' = [kcalls EXCEPT ![t] = <<>>]
  /\ raised' = [raised EXCEPT ![t] = "none"]
  /\ seen' = [seen EXCEPT ![t] = "nothing"]
  /\ stderr' = [stderr EXCEPT ![t] = "none"]
  /\ UNCHANGED <<Ssize, Usize, A00, A01, A10, X>>

Discard(t) == Taken(t) /\ UNCHANGED notKernel

Step(t) ==
  \/ Tabulate00(t)
  \/ Tabulate01(t)
  \/ Tabulate10(t)
  \/ Condense(t)
  \/ Return(t)

(***************************************************************************)
(* test/unit/parameter/python/test.py: InputOutput.test_simple and         *)
(* InputOutput.test_nested, run one after the other by every MPI process.  *)
(* Both write and read the file test_parameters.xml.                       *)
(***************************************************************************)
\* the MPI processes are 0..NumProcs-1
NumProcs == 2

Procs == 0..(NumProcs - 1)
Tests == {"test_simple", "test_nested"}
TestOrders == {<<"test_simple", "test_nested">>, <<"test_nested", "test_simple">>}

NoFile == [test |-> "none", complete |-> FALSE]

PInit ==
  /\ order \in TestOrders
  /\ tnum = [p \in Procs |-> 1]
  /\ tpc = [p \in Procs |-> "create"]
  /\ file = NoFile
  /\ bar = [p \in Procs |-> 0]
  /\ p1 = [p \in Procs |-> [k \in Tests |-> NoFile]]

Running(p) == order[tnum[p]]

\* p0 = Parameters("test"); p0.add(...)
Create(p) ==
  /\ tpc[p] = "create"
  /\ tpc' = [tpc EXCEPT ![p] = IF p = 0 THEN "open" ELSE "barrier"]
  /\ UNCHANGED <<order, tnum, file, bar, p1>>
  /\ UNCHANGED notParams

\* if MPI.process_number() == 0: f0 = File("test_parameters.xml"); f0 << p0
\* the file is opened for writing (emptied), then filled and closed
WriteOpen(p) ==
  /\ tpc[p] = "open"
  /\ file' = [test |-> Running(p), complete |-> FALSE]
  /\ tpc' = [tpc EXCEPT ![p] = "write"]
  /\ UNCHANGED <<order, tnum, bar, p1>>
  /\ UNCHANGED notParams

WriteClose(p) ==
  /\ tpc[p] = "write"
  /\ file' = [test |-> Running(p), complete |-> TRUE]
  /\ tpc' = [tpc EXCEPT ![p] = "barrier"]
  /\ UNCHANGED <<order, tnum, bar, p1>>
  /\ UNCHANGED notParams

\* MPI.barrier(): no process leaves before every process has entered
BarrierEnter(p) ==
  /\ tpc[p] = "barrier"
  /\ bar' = [bar EXCEPT ![p] = @ + 1]
  /\ tpc' = [tpc EXCEPT ![p] = "wait"]
  /\ UNCHANGED <<order, tnum, file, p1>>
  /\ UNCHANGED notParams

BarrierLeave(p) ==
  /\ tpc[p] = "wait"
  /\ \A q \in Procs : bar[q] >= bar[p]
  /\ tpc' = [tpc EXCEPT ![p] = "read"]
  /\ UNCHANGED <<order, tnum, file, bar, p1>>
  /\ UNCHANGED notParams

\* p1 = Parameters(); f1 = File("test_parameters.xml"); f1 >> p1
Read(p) ==
  /\ tpc[p] = "read"
  /\ p1' = [p1 EXCEPT ![p][Running(p)] = file]
  /\ tpc' = [tpc EXCEPT ![p] = "check"]
  /\ UNCHANGED <<order, tnum, file, bar>>
  /\ UNCHANGED notParams

\* the assertions; then the runner starts the next test
Check(p) ==
  /\ tpc[p] = "check"
  /\ IF tnum[p] < Len(order)
     THEN /\ tnum' = [tnum EXCEPT ![p] = @ + 1]
          /\ tpc' = [tpc EXCEPT ![p] = "create"]
     ELSE /\ tpc' = [tpc EXCEPT ![p] = "done"]
          /\ UNCHANGED tnum
  /\ UNCHANGED <<order, file, bar, p1>>
  /\ UNCHANGED notParams

PNext ==
  \E p \in Procs :
    \/ Create(p)
    \/ WriteOpen(p)
    \/ WriteClose(p)
    \/ BarrierEnter(p)
    \/ BarrierLeave(p)
    \/ Read(p)
    \/ Check(p)

\* the parameter tests are not running
PQuiet ==
  /\ order = <<>>
  /\ tnum = [p \in Procs |-> 1]
  /\ tpc = [p \in Procs |-> "done"]
  /\ file = NoFile
  /\ bar = [p \in Procs |-> 0]
  /\ p1 = [p \in Procs |-> [k \in Tests |-> NoFile]]

\* the condensation callback is not running
KQuiet ==
  /\ Ssize = 0 /\ Usize = 0
  /\ pc = [t \in Threads |-> "off"]
  /\ callerData = [t \in Threads |-> NoCell]
  /\ A_ = [t \in Threads |-> NoMat]
  /\ entry = [t \in Threads |-> [data |-> NoCell, A |-> NoMat]]
  /\ A00 = [t \in Threads |-> NoMat]
  /\ A01 = [t \in Threads |-> NoMat]
  /\ A10 = [t \in Threads |-> NoMat]
  /\ X = [t \in Threads |-> NoMat]
  /\ kcalls = [t \in Threads |-> <<>>]
  /\ raised = [t \in Threads |-> "none"]
  /\ seen = [t \in Threads |-> "nothing"]
  /\ stderr = [t \in Threads |-> "none"]

(***************************************************************************)
(* python/test/unit/mesh/test_sub_domain.py: test_creation_and_marking.    *)
(* A vertex is its tuple of grid indices, each in 0..NDiv; its coordinates *)
(* are the indices over NDiv.  An entity is the set of its vertices.       *)
(***************************************************************************)
\* args = [10]*dim : divisions per direction
NDiv == 10

\* the test may run on 1..MaxRanks MPI processes
MaxRanks == 2

\* DOLFIN_EPS = 3.0e-16, as mantissa and negated decimal exponent
EpsMantissa == 3
EpsExponent == 16

\* a * 10^k < b, for naturals a, b
RECURSIVE ScaledLess(_, _, _)
ScaledLess(a, b, k) ==
  IF k = 0 THEN a < b ELSE ScaledLess(a, (b + 9) \div 10, k - 1)

\* num/den < DOLFIN_EPS, for num >= 0, den > 0
BelowEps(num, den) == ScaledLess(num, EpsMantissa * den, EpsExponent)

\* (mutant) the tolerance of Left.inside with the wrong sign: x < -DOLFIN_EPS
LeftInsideNegEps(x, on_boundary) == x[1] < 0 /\ ~BelowEps(0 - x[1], x[2])

\* class Left: x[:, 0] < DOLFIN_EPS.  x is the first coordinate, a fraction
LeftInside(x, on_boundary) == BelowEps(x[1], x[2])

\* class LeftOnBoundary
LeftOnBoundaryInside(x, on_boundary) == BelowEps(x[1], x[2]) /\ on_boundary

\* class Right: x[:, 0] > 1.0 - DOLFIN_EPS
RightInside(x, on_boundary) == BelowEps(x[2] - x[1], x[2])

\* class RightOnBoundary
RightOnBoundaryInside(x, on_boundary) == BelowEps(x[2] - x[1], x[2]) /\ on_boundary

\* subdomain_pairs: the Python classes, then the compiled C++ classes
subdomain_pairs ==
  << [left |-> "Left", right |-> "Right"],
     [left |-> "LeftOnBoundary", right |-> "RightOnBoundary"],
     [left |-> "cpp.Left", right |-> "cpp.Right"],
     [left |-> "cpp.LeftOnBoundary", right |-> "cpp.RightOnBoundary"] >>

Inside(sd, x, on_boundary) ==
  CASE sd \in {"Left", "cpp.Left"} -> LeftInside(x, on_boundary)
    [] sd \in {"LeftOnBoundary", "cpp.LeftOnBoundary"} -> LeftOnBoundaryInside(x, on_boundary)
    [] sd \in {"Right", "cpp.Right"} -> RightInside(x, on_boundary)
    [] sd \in {"RightOnBoundary", "cpp.RightOnBoundary"} -> RightOnBoundaryInside(x, on_boundary)

\* [(0, 0), (mesh.topology().dim()-1, dim-1), (mesh.topology().dim(), dim)]
EntityDims(dim) == <<0, dim - 1, dim>>

\* the dictionary  correct
correct(dim, f_dim) ==
  CASE dim = 1 /\ f_dim = 0 -> 1
    [] dim = 1 /\ f_dim = 1 -> 0
    [] dim = 2 /\ f_dim = 0 -> 11
    [] dim = 2 /\ f_dim = 1 -> 10
    [] dim = 2 /\ f_dim = 2 -> 0
    [] dim = 3 /\ f_dim = 0 -> 121
    [] dim = 3 /\ f_dim = 2 -> 200
    [] dim = 3 /\ f_dim = 3 -> 0

(***************************************************************************)
(* The library's meshes and SubDomain.mark.                                *)
(***************************************************************************)
\* the grid cells (intervals, squares, cubes) by their lowest corner
Boxes(dim) == [1..dim -> 0..(NDiv - 1)]

Corner(b, bits) == [a \in 1..Len(b) |-> b[a] + bits[a]]

\* the simplices a box is cut into: 1 interval, 2 triangles or 6 tetrahedra
Simplices(dim, b) ==
  CASE dim = 1 -> { {Corner(b, <<0>>), Corner(b, <<1>>)} }
    [] dim = 2 -> { {Corner(b, <<0, 0>>), Corner(b, <<1, 0>>), Corner(b, <<1, 1>>)},
                    {Corner(b, <<0, 0>>), Corner(b, <<0, 1>>), Corner(b, <<1, 1>>)} }
    [] dim = 3 ->
         LET v0 == Corner(b, <<0, 0, 0>>)  v1 == Corner(b, <<1, 0, 0>>)
             v2 == Corner(b, <<0, 1, 0>>)  v3 == Corner(b, <<1, 1, 0>>)
             v4 == Corner(b, <<0, 0, 1>>)  v5 == Corner(b, <<1, 0, 1>>)
             v6 == Corner(b, <<0, 1, 1>>)  v7 == Corner(b, <<1, 1, 1>>)
         IN  { {v0, v1, v3, v7}, {v0, v1, v7, v5}, {v0, v5, v7, v4},
               {v0, v3, v2, v7}, {v0, v6, v4, v7}, {v0, v2, v6, v7} }

\* the mesh is distributed in slabs along one axis
Owner(b, axis, size) == (b[axis] * size) \div NDiv

\* the entities of dimension t_dim of a cell
SubEntities(cell, t_dim) == {e \in SUBSET cell : Cardinality(e) = t_dim + 1}

RECURSIVE SumFirst(_, _)
SumFirst(pts, acc) ==
  IF pts = {} THEN acc
  ELSE LET v == CHOOSE w \in pts : TRUE IN SumFirst(pts \ {v}, acc + v[1])

\* an entity is on the boundary when it lies in one face of the unit box
OnBoundary(e, dim) ==
  /\ Cardinality(e) <= dim
  /\ \E a \in 1..dim : \E side \in {0, NDiv} : \A v \in e : v[a] = side

\* mark sets an entity when inside() holds at all its vertices and its midpoint
AllInside(sd, e, dim) ==
  LET onb == OnBoundary(e, dim)
  IN  /\ \A v \in e : Inside(sd, <<v[1], NDiv>>, onb)
      /\ Inside(sd, <<SumFirst(e, 0), NDiv * Cardinality(e)>>, onb)

\* the entities of dimension t_dim of process r's part of the mesh that
\* subdomain sd marks
Marked(sd, dim, t_dim, r, axis, size) ==
  UNION { UNION { {e \in SubEntities(c, t_dim) : AllInside(sd, e, dim)} :
                  c \in Simplices(dim, b) } :
          b \in {bb \in Boxes(dim) : Owner(bb, axis, size) = r} }

\* sd.mark(f, value)
Mark(fr, inside, value) ==
  [v \in 1..2 |-> IF v = value THEN fr[v] \cup inside ELSE fr[v] \ inside]

RECURSIVE SumOver(_, _)
\* MPI.sum(mesh.mpi_comm(), float((f.array() == value).sum()))
SumOver(value, r) ==
  IF r < 0 THEN 0 ELSE Cardinality(f[r][value]) + SumOver(value, r - 1)

MPI_sum(value) == SumOver(value, msize - 1)

MInit ==
  /\ msize \in 1..MaxRanks
  /\ mdim = 1
  /\ maxis = 1
  /\ pairIx = 1
  /\ tIx = 1
  /\ mpc = "mesh"
  /\ f = [r \in 0..(msize - 1) |-> [v \in 1..2 |-> {}]]
  /\ failed = FALSE

\* mesh = MeshClass(MPI.comm_world, *args); mesh.init()
CreateMesh ==
  /\ mpc = "mesh"
  /\ maxis' \in (IF msize = 1 THEN {1} ELSE 1..mdim)
  /\ pairIx' = 1
  /\ tIx' = 1
  /\ mpc' = "new"
  /\ UNCHANGED <<msize, mdim, f, failed>>
  /\ UNCHANGED notMarking

\* f = MeshFunction("size_t", mesh, t_dim, 0)
NewFunction ==
  /\ mpc = "new"
  /\ f' = [r \in 0..(msize - 1) |-> [v \in 1..2 |-> {}]]
  /\ mpc' = "left"
  /\ UNCHANGED <<msize, mdim, maxis, pairIx, tIx, failed>>
  /\ UNCHANGED notMarking

\* left.mark(f, int(1))
MarkLeft ==
  /\ mpc = "left"
  /\ f' = [r \in 0..(msize - 1) |->
             Mark(f[r], Marked(subdomain_pairs[pairIx].left, mdim,
                               EntityDims(mdim)[tIx], r, maxis, msize), 1)]
  /\ mpc' = "right"
  /\ UNCHANGED <<msize, mdim, maxis, pairIx, tIx, failed>>
  /\ UNCHANGED notMarking

\* right.mark(f, 2)
MarkRight ==
  /\ mpc = "right"
  /\ f' = [r \in 0..(msize - 1) |->
             Mark(f[r], Marked(subdomain_pairs[pairIx].right, mdim,
                               EntityDims(mdim)[tIx], r, maxis, msize), 2)]
  /\ mpc' = "assert"
  /\ UNCHANGED <<msize, mdim, maxis, pairIx, tIx, failed>>
  /\ UNCHANGED notMarking

\* assert all(value >= correct[dim, f_dim] for value in [MPI.sum(== 2), MPI.sum(== 1)])
AssertionHolds ==
  /\ MPI_sum(2) >= correct(mdim, EntityDims(mdim)[tIx])
  /\ MPI_sum(1) >= correct(mdim, EntityDims(mdim)[tIx])

AssertCounts ==
  /\ mpc = "assert"
  /\ IF ~AssertionHolds
     THEN /\ failed' = TRUE
          /\ mpc' = "stopped"
          /\ UNCHANGED <<pairIx, tIx>>
     ELSE /\ UNCHANGED failed
          /\ IF tIx < 3
             THEN /\ tIx' = tIx + 1
                  /\ mpc' = "new"
                  /\ UNCHANGED pairIx
             ELSE IF pairIx < Len(subdomain_pairs)
                  THEN /\ tIx' = 1
                       /\ pairIx' = pairIx + 1
                       /\ mpc' = "new"
                  ELSE /\ mpc' = "tail"
                       /\ UNCHANGED <<pairIx, tIx>>
  /\ UNCHANGED <<msize, mdim, maxis, f>>
  /\ UNCHANGED notMarking

\* the last loop over (t_dim, f_dim) only creates mesh functions; the loop
\* over the mesh classes then goes on
NextMesh ==
  /\ mpc = "tail"
  /\ f' = [r \in 0..(msize - 1) |-> [v \in 1..2 |-> {}]]
  /\ IF mdim < 3
     THEN /\ mdim' = mdim + 1
          /\ mpc' = "mesh"
     ELSE /\ mpc' = "done"
          /\ UNCHANGED mdim
  /\ UNCHANGED <<msize, maxis, pairIx, tIx, failed>>
  /\ UNCHANGED notMarking

MNext ==
  \/ CreateMesh
  \/ NewFunction
  \/ MarkLeft
  \/ MarkRight
  \/ AssertCounts
  \/ NextMesh

\* the marking test is not running
MQuiet ==
  /\ msize = 1
  /\ mdim = 1
  /\ maxis = 1
  /\ pairIx = 1
  /\ tIx = 1
  /\ mpc = "off"
  /\ f = [r \in 0..0 |-> [v \in 1..2 |-> {}]]
  /\ failed = FALSE

(***************************************************************************)
(* static-condensation-elasticity.py: the finite elements and the forms.   *)
(* A triangle is the triple of its vertex coordinates.  On a triangle the  *)
(* stress basis functions (DG 1, symmetric) and the gradients of the       *)
(* displacement basis functions (CG 2) are affine: each is held as its     *)
(* three vertex values, 2 x 2 tensors.                                     *)
(***************************************************************************)
\* E, nu = 1.0, 1.0 / 3.0
E == <<1, 1>>
nu == <<1, 3>>

\* the space dimensions of Se (3 components x 3 nodes) and Ue (2 x 6 nodes)
SpaceDimensionS == 9
SpaceDimensionU == 12

DetJ(tri) ==
  (tri[2][1] - tri[1][1]) * (tri[3][2] - tri[1][2])
    - (tri[3][1] - tri[1][1]) * (tri[2][2] - tri[1][2])

\* the gradient of the barycentric coordinate of vertex i
GradLambda(tri, i) ==
  LET j == (i % 3) + 1
      k == (j % 3) + 1
  IN  << Rat(tri[j][2] - tri[k][2], DetJ(tri)), Rat(tri[k][1] - tri[j][1], DetJ(tri)) >>

VScale(c, v) == <<RMul(c, v[1]), RMul(c, v[2])>>
VAdd(v, w) == <<RAdd(v[1], w[1]), RAdd(v[2], w[2])>>
Delta(i, j) == IF i = j THEN One ELSE Zero

\* the gradient at vertex m of the scalar CG 2 basis function a: 1..3 belong
\* to the vertices, 4..6 to the edges opposite to vertex 1, 2, 3
GradPhi(tri, a, m) ==
  IF a <= 3
  THEN VScale(RSub(RMul(Int2Rat(4), Delta(a, m)), One), GradLambda(tri, a))
  ELSE LET i == ((a - 3) % 3) + 1
           j == (i % 3) + 1
       IN  VScale(Int2Rat(4), VAdd(VScale(Delta(i, m), GradLambda(tri, j)),
                                   VScale(Delta(j, m), GradLambda(tri, i))))

\* local dof q of Ue: scalar basis function and component
NodeOf(q) == ((q - 1) \div 2) + 1
CompOf(q) == ((q - 1) % 2) + 1

\* ufl.grad of the displacement basis function q, at vertex m
GradU(tri, q, m) ==
  [r \in 1..2 |-> IF r = CompOf(q) THEN GradPhi(tri, NodeOf(q), m) ELSE <<Zero, Zero>>]

TScale(c, T) == [r \in 1..2 |-> [c2 \in 1..2 |-> RMul(c, T[r][c2])]]
TAdd(T, V) == [r \in 1..2 |-> [c2 \in 1..2 |-> RAdd(T[r][c2], V[r][c2])]]
Transpose2(T) == [r \in 1..2 |-> [c2 \in 1..2 |-> T[c2][r]]]
Identity2 == <<<<One, Zero>>, <<Zero, One>>>>
Trace2(T) == RAdd(T[1][1], T[2][2])

\* ufl.inner of two 2 x 2 tensors
Inner(T, V) ==
  RAdd(RAdd(RMul(T[1][1], V[1][1]), RMul(T[1][2], V[1][2])),
       RAdd(RMul(T[2][1], V[2][1]), RMul(T[2][2], V[2][2])))

\* (mutant) the plane-strain factor E / ((1 + nu)(1 - 2 nu)) in place of the
\* plane-stress E / (1 - nu^2)
sigma_u_strain(G) ==
  LET eps == TScale(<<1, 2>>, TAdd(G, Transpose2(G)))
  IN  TScale(RDiv(E, RMul(RAdd(One, nu), RSub(One, RMul(Int2Rat(2), nu)))),
             TAdd(TScale(RSub(One, nu), eps), TScale(RMul(nu, Trace2(eps)), Identity2)))

\* sigma_u(u), from the gradient G of u
sigma_u(G) ==
  LET eps == TScale(<<1, 2>>, TAdd(G, Transpose2(G)))
  IN  TScale(RDiv(E, RSub(One, RMul(nu, nu))),
             TAdd(TScale(RSub(One, nu), eps), TScale(RMul(nu, Trace2(eps)), Identity2)))

\* local dof s of Se: component (xx, xy = yx, yy) and node
SComp(s) == ((s - 1) \div 3) + 1
SNode(s) == ((s - 1) % 3) + 1

SymBasis(k) ==
  CASE k = 1 -> <<<<One, Zero>>, <<Zero, Zero>>>>
    [] k = 2 -> <<<<Zero, One>>, <<One, Zero>>>>
    [] k = 3 -> <<<<Zero, Zero>>, <<Zero, One>>>>

\* the stress basis function s at vertex m
SigmaBasis(s, m) == IF SNode(s) = m THEN SymBasis(SComp(s)) ELSE <<<<Zero, Zero>>, <<Zero, Zero>>>>

\* the integral over the triangle of inner(F, G) * dx for affine F and G
\* given by their vertex values: |T|/12 * sum (1 + delta_mn) inner(F_m, G_n)
IntegrateDx(tri, F, G) ==
  LET w(m, n) == Rat(Abs(DetJ(tri)) * (IF m = n THEN 2 ELSE 1), 24)
      term(m, n) == RMul(w(m, n), Inner(F[m], G[n]))
      row(m) == RAdd(RAdd(term(m, 1), term(m, 2)), term(m, 3))
  IN  RAdd(RAdd(row(1), row(2)), row(3))

SigmaValues(s) == [m \in 1..3 |-> SigmaBasis(s, m)]
GradValues(tri, q) == [m \in 1..3 |-> GradU(tri, q, m)]
StressValues(tri, q) == [m \in 1..3 |-> sigma_u(GradU(tri, q, m))]

\* a00 = ufl.inner(sigma, tau) * ufl.dx : rows tau, columns sigma
Form00(tri) ==
  [t \in 1..SpaceDimensionS |-> [s \in 1..SpaceDimensionS |->
     IntegrateDx(tri, SigmaValues(s), SigmaValues(t))]]

\* a10 = - ufl.inner(sigma, ufl.grad(v)) * ufl.dx : rows v, columns sigma
Form10(tri) ==
  [q \in 1..SpaceDimensionU |-> [s \in 1..SpaceDimensionS |->
     RNeg(IntegrateDx(tri, SigmaValues(s), GradValues(tri, q)))]]

\* a01 = - ufl.inner(sigma_u(u), tau) * ufl.dx : rows tau, columns u
Form01(tri) ==
  [t \in 1..SpaceDimensionS |-> [q \in 1..SpaceDimensionU |->
     RNeg(IntegrateDx(tri, StressValues(tri, q), SigmaValues(t)))]]

\* (mutant) the displacement form with the plane-strain stress
FormDispStrain(tri) ==
  [q \in 1..SpaceDimensionU |-> [r \in 1..SpaceDimensionU |->
     RNeg(IntegrateDx(tri, [m \in 1..3 |-> sigma_u_strain(GradU(tri, r, m))],
                      GradValues(tri, q)))]]

\* a = - ufl.inner(sigma_u(u), ufl.grad(v)) * ufl.dx : rows v, columns u
FormDisp(tri) ==
  [q \in 1..SpaceDimensionU |-> [r \in 1..SpaceDimensionU |->
     RNeg(IntegrateDx(tri, StressValues(tri, r), GradValues(tri, q)))]]

(***************************************************************************)
(* static-condensation-elasticity.py: the mesh, the boundary condition and *)
(* the two assemblies.  The mesh file is not part of the sources: the      *)
(* model takes Cook's membrane, a trapezoid with its left side on x = 0,   *)
(* with integer corner coordinates, cut into two triangles along either    *)
(* diagonal.  assemble_matrix is the library's: over the cells it zeroes   *)
(* the element tensor, calls the cell kernel, drops the rows and columns   *)
(* of constrained dofs and adds the rest into the matrix; it then adds the *)
(* diagonal 1.0 on the constrained dofs.                                   *)
(***************************************************************************)
MaxCoord == 2

Trapezoids ==
  { [x |-> << <<0, 0>>, <<w, b>>, <<w, t>>, <<0, h>> >>, cells |-> cs] :
      w \in 1..MaxCoord, h \in {1, MaxCoord},
      b \in 0..(MaxCoord - 1), t \in 1..MaxCoord,
      cs \in { << <<1, 2, 3>>, <<1, 3, 4>> >>, << <<1, 2, 4>>, <<2, 3, 4>> >> } }

\* the right side lies above its lower end: no cell is degenerate
Meshes == { m \in Trapezoids : m.x[2][2] < m.x[3][2] }

NumCells(mesh) == Len(mesh.cells)

\* the coordinates of the vertices of cell c
Triangle(mesh, c) ==
  << mesh.x[mesh.cells[c][1]], mesh.x[mesh.cells[c][2]], mesh.x[mesh.cells[c][3]] >>

\* a node of the CG 2 space is a vertex {v} or an edge {v, w} of the mesh
CellNode(cell, a) ==
  IF a <= 3
  THEN {cell[a]}
  ELSE LET i == ((a - 3) % 3) + 1
           j == (i % 3) + 1
       IN  {cell[i], cell[j]}

CellNodes(cell) == {CellNode(cell, a) : a \in 1..6}

Nodes(mesh) == UNION {CellNodes(mesh.cells[c]) : c \in 1..NumCells(mesh)}

\* a global dof of U: node and component
Dofs(mesh) == Nodes(mesh) \X (1..2)

\* the cell dofmap of U
CellDof(cell, q) == <<CellNode(cell, NodeOf(q)), CompOf(q)>>

\* the local index of the global dof d on the cell, 0 if it is not one
LocalIndex(cell, d) ==
  IF \E q \in 1..SpaceDimensionU : CellDof(cell, q) = d
  THEN CHOOSE q \in 1..SpaceDimensionU : CellDof(cell, q) = d
  ELSE 0

\* def left(x): numpy.isclose(x[0], 0.0); the coordinates are integers
left(x) == x[1] = 0

\* the facets on the boundary (in one cell only) whose vertices are all marked;
\* marked is the marker's answer for every vertex of the mesh
locate_entities_geometrical(mesh, marked) ==
  { e \in Nodes(mesh) :
      /\ Cardinality(e) = 2
      /\ Cardinality({c \in 1..NumCells(mesh) : e \in CellNodes(mesh.cells[c])}) = 1
      /\ \A v \in e : marked[v] }

\* the dofs of U on the closure of the facets
locate_dofs_topological(mesh, facets) ==
  { d \in Dofs(mesh) : \E e \in facets : d[1] \subseteq e }

left_facets(mesh) ==
  locate_entities_geometrical(mesh, [v \in DOMAIN mesh.x |-> left(mesh.x[v])])
bdofs(mesh) == locate_dofs_topological(mesh, left_facets(mesh))

ZeroMatrix(mesh) == [dd \in Dofs(mesh) \X Dofs(mesh) |-> Zero]

\* the element tensor Ae of cell c goes into the matrix, constrained rows and
\* columns left out
AddLocal(G, mesh, c, Ae) ==
  LET cell == mesh.cells[c]
      bcs == bdofs(mesh)
  IN  [dd \in DOMAIN G |->
         LET q == LocalIndex(cell, dd[1])
             r == LocalIndex(cell, dd[2])
         IN  IF q # 0 /\ r # 0 /\ dd[1] \notin bcs /\ dd[2] \notin bcs
             THEN RAdd(G[dd], Ae[q][r])
             ELSE G[dd]]

AddDiagonal(G, mesh) ==
  [dd \in DOMAIN G |->
     IF dd[1] = dd[2] /\ dd[1] \in bdofs(mesh) THEN RAdd(G[dd], One) ELSE G[dd]]

\* the cell data that reach kernel00, kernel01 and kernel10
CellData(mesh, c) ==
  [K00 |-> Form00(Triangle(mesh, c)),
   K01 |-> Form01(Triangle(mesh, c)),
   K10 |-> Form10(Triangle(mesh, c))]

\* numpy.isclose(norm, 0.0) is norm <= atol = 1e-8.  The Frobenius norm is at
\* least the magnitude of every entry and is 0 when every entry is 0; the
\* entries are fractions of denominator below 10^8, so that "every entry is
\* at most atol in magnitude" is the same test
AtolExponent == 8
RECURSIVE DivPow10(_, _)
DivPow10(n, k) == IF k = 0 THEN n ELSE DivPow10(n \div 10, k - 1)
WithinAtol(r) == Abs(r[1]) <= DivPow10(r[2], AtolExponent)
NormIsClose(G, H) == \A dd \in DOMAIN G : WithinAtol(RSub(G[dd], H[dd]))

AInit ==
  /\ amesh \in Meshes
  /\ apc = "a_cond"
  /\ acell = 1
  /\ A_cond = ZeroMatrix(amesh)
  /\ A = ZeroMatrix(amesh)
  /\ asserted = "none"

\* the assemblies are not running
AQuiet ==
  /\ amesh = [x |-> <<>>, cells |-> <<>>]
  /\ apc = "off"
  /\ acell = 0
  /\ A_cond = <<>>
  /\ A = <<>>
  /\ asserted = "none"

\* A_cond = assemble_matrix(a_cond, [bc]): the next cell, its tensor zeroed
AsmCall ==
  /\ apc = "a_cond"
  /\ acell <= NumCells(amesh)
  /\ Call("t1", {CellData(amesh, acell)}, {Zeros(Usize, Usize)})

\* the callback has returned: the tensor it left in the buffer is added
AsmAdd ==
  /\ apc = "a_cond"
  /\ Taken("t1")
  /\ A_cond' = AddLocal(A_cond, amesh, acell, A_["t1"])
  /\ acell' = acell + 1
  /\ UNCHANGED <<amesh, apc, A, asserted>>
  /\ UNCHANGED notAssembly

AsmEnd ==
  /\ apc = "a_cond"
  /\ acell > NumCells(amesh)
  /\ A_cond' = AddDiagonal(A_cond, amesh)
  /\ apc' = "a"
  /\ acell' = 1
  /\ UNCHANGED <<amesh, A, asserted>>
  /\ UNCHANGED <<kvars, notAssembly>>

\* A = assemble_matrix(a, [bc]): the kernel generated from the form a
AsmDisp ==
  /\ apc = "a"
  /\ acell <= NumCells(amesh)
  /\ A' = AddLocal(A, amesh, acell, FormDisp(Triangle(amesh, acell)))
  /\ acell' = acell + 1
  /\ UNCHANGED <<amesh, apc, A_cond, asserted>>
  /\ UNCHANGED <<kvars, notAssembly>>

AsmDispEnd ==
  /\ apc = "a"
  /\ acell > NumCells(amesh)
  /\ A' = AddDiagonal(A, amesh)
  /\ apc' = "l178"
  /\ UNCHANGED <<amesh, acell, A_cond, asserted>>
  /\ UNCHANGED <<kvars, notAssembly>>

\* assert numpy.isclose((A - A_cond).norm(), 0.0)
AssertEqual ==
  /\ apc = "l178"
  /\ asserted' = IF NormIsClose(A, A_cond) THEN "passed" ELSE "AssertionError"
  /\ apc' = "done"
  /\ UNCHANGED <<amesh, acell, A_cond, A>>
  /\ UNCHANGED <<kvars, notAssembly>>

\* one invocation at a time, over every cell
Init == KInit /\ PQuiet /\ MQuiet /\ AQuiet

Next ==
  \/ Call("t1", Cells(Ssize, Usize), BufferBefore)
  \/ Step("t1")
  \/ Discard("t1")

Spec == Init /\ [][Next]_vars

\* two invocations interleaved
NextConc ==
  \E t \in Threads :
    \/ Call(t, PlainCells(Ssize, Usize), BufferBefore)
    \/ Step(t)
    \/ Discard(t)

SpecConc == Init /\ [][NextConc]_vars

\* the two parameter tests on NumProcs processes
InitParams == KQuiet /\ PInit /\ MQuiet /\ AQuiet

SpecParams == InitParams /\ [][PNext]_vars

\* the marking test on 1..MaxRanks processes
InitMarking == KQuiet /\ PQuiet /\ MInit /\ AQuiet

SpecMarking == InitMarking /\ [][MNext]_vars

\* the demo: both assemblies on one mesh, then the assertion
InitAssembly == KStart({<<SpaceDimensionS, SpaceDimensionU>>}) /\ PQuiet /\ MQuiet /\ AInit

NextAssembly ==
  \/ AsmCall
  \/ Step("t1")
  \/ AsmAdd
  \/ AsmEnd
  \/ AsmDisp
  \/ AsmDispEnd
  \/ AssertEqual

SpecAssembly == InitAssembly /\ [][NextAssembly]_vars

(***************************************************************************)
(* Properties of tabulate_condensed_tensor_A.                              *)
(***************************************************************************)
InCall(t) == pc[t] \in {"l129", "l133", "l137", "l142", "exit"}
Ended(t) == pc[t] = "returned"

\* C1: whenever the self-block K00 of the cell is invertible, the call ends
\* with the output tensor equal to -K10 . K00^-1 . K01, and the solve's value X
\* satisfies K00 . X = K01 with the output equal to -K10 . X.
C1_Algebra ==
  \A t \in Threads :
    (pc[t] = "exit" /\ ~IsSingular(callerData[t].K00)) =>
      /\ raised[t] = "none"
      /\ MatMul(callerData[t].K00, X[t]) = callerData[t].K01
      /\ A_[t] = MatNeg(MatMul(callerData[t].K10, X[t]))
      /\ A_[t] = MatNeg(MatMul(MatMul(callerData[t].K10, Inverse(callerData[t].K00)),
                               callerData[t].K01))

\* an invertible 2 x 2 self-block that needs a row exchange, a non-zero result
C1_Witness ==
  \E t \in Threads :
    /\ pc[t] = "exit"
    /\ Ssize = 2
    /\ ~IsSingular(callerData[t].K00)
    /\ callerData[t].K00[1][1] = Zero
    /\ A_[t] # Zeros(Usize, Usize)
    /\ A_[t] # entry[t].A

\* C3 (as claimed): a call on a cell with a singular self-block does not end
\* in a normal return to the caller.
C3_SingularReachesCaller ==
  \A t \in Threads :
    (Ended(t) /\ IsSingular(callerData[t].K00)) => seen[t] # "returned"

C5_SameInputsSameOutput ==
  \A t, u \in Threads :
    (Ended(t) /\ Ended(u) /\ callerData[t] = callerData[u]) => A_[t] = A_[u]

\* what one invocation leaves in its output buffer when it runs alone
Alone(el, buf) ==
  LET r == Condensed(kernel00(Zeros(Ssize, Ssize), el),
                     kernel01(Zeros(Ssize, Usize), el),
                     kernel10(Zeros(Usize, Ssize), el))
  IN  IF r.ok THEN r.A ELSE buf

\* C6: under every interleaving, an invocation that has run to its end holds
\* in its output buffer what it produces when run alone on the same cell data
\* and the same buffer.
C6_NoInterference ==
  \A t \in Threads :
    (pc[t] = "exit" \/ Ended(t)) => A_[t] = Alone(entry[t].data, entry[t].A)

\* two invocations in flight on different cells, one of them at its end
C6_Witness ==
  \E t, u \in Threads :
    /\ t # u
    /\ pc[t] = "exit"
    /\ raised[t] = "none"
    /\ pc[u] \in {"l133", "l137", "l142"}
    /\ callerData[t] # callerData[u]
    /\ A_[t] # entry[t].A

KernelCallsExpected(t) ==
  << [kernel |-> "kernel00", buf |-> Zeros(Ssize, Ssize), args |-> entry[t].data],
     [kernel |-> "kernel01", buf |-> Zeros(Ssize, Usize), args |-> entry[t].data],
     [kernel |-> "kernel10", buf |-> Zeros(Usize, Ssize), args |-> entry[t].data] >>

KernelCallsDone(t) ==
  CASE pc[t] = "l129" -> 0
    [] pc[t] = "l133" -> 1
    [] pc[t] = "l137" -> 2
    [] OTHER -> 3

\* C9: during a call the caller's cell data stays as passed in; the kernels
\* kernel00, kernel01, kernel10 are called once each, in this order, on a
\* zeroed block and with the caller's arguments; the output buffer keeps its
\* contents until all three kernels have run.
C9_Frame ==
  \A t \in Threads :
    InCall(t) =>
      /\ callerData[t] = entry[t].data
      /\ kcalls[t] = SubSeq(KernelCallsExpected(t), 1, KernelCallsDone(t))
      /\ pc[t] # "exit" => A_[t] = entry[t].A

C9_Witness ==
  \E t \in Threads :
    /\ pc[t] = "exit"
    /\ Len(kcalls[t]) = 3
    /\ A_[t] # entry[t].A
    /\ entry[t].A # Zeros(Usize, Usize)

(***************************************************************************)
(* Properties of the parameter tests.                                      *)
(***************************************************************************)
\* C10 (as claimed): whatever a process has read in a test is the complete
\* file written by process 0 in that same test.
C10_ReadsOwnTest ==
  \A p \in Procs : \A k \in Tests :
    p1[p][k] # NoFile => p1[p][k] = [test |-> k, complete |-> TRUE]

(***************************************************************************)
(* Properties of the marking test.                                         *)
(***************************************************************************)
\* C8: for every mesh, subdomain pair and entity dimension, once left.mark(f, 1)
\* and right.mark(f, 2) have run, the entities holding 1 and those holding 2,
\* each counted over all processes, are at least  correct[dim, f_dim]; no
\* assertion of the test fails.
C8_MarkedCounts ==
  /\ ~failed
  /\ mpc = "assert" =>
       /\ MPI_sum(1) >= correct(mdim, EntityDims(mdim)[tIx])
       /\ MPI_sum(2) >= correct(mdim, EntityDims(mdim)[tIx])

\* the vertices of the cube on two processes that share vertices of the marked
\* faces, under the compiled on-boundary pair: 121 are expected and more are
\* counted
C8_Witness ==
  /\ mpc = "assert"
  /\ mdim = 3
  /\ EntityDims(mdim)[tIx] = 0
  /\ msize = 2
  /\ pairIx = 4
  /\ MPI_sum(1) > 121
  /\ MPI_sum(2) > 121

(***************************************************************************)
(* Properties of the two assemblies.                                       *)
(***************************************************************************)
\* C2: the matrix assembled cell by cell through the condensation callback
\* and the matrix assembled from the displacement form a, on the same mesh and
\* with the same boundary condition, are equal, and the assertion of line
\* 178, which every run comes to, passes
C2_AssembledEqual ==
  /\ asserted # "AssertionError"
  /\ apc = "done" =>
       /\ asserted = "passed"
       /\ \A dd \in DOMAIN A : A[dd] = A_cond[dd]

\* C2: both assemblies are over; the boundary condition holds some dofs and
\* leaves others free; a free dof shared by the two cells has a nonzero
\* diagonal entry
C2_Witness ==
  /\ apc = "done"
  /\ asserted = "passed"
  /\ bdofs(amesh) # {}
  /\ \E d \in Dofs(amesh) \ bdofs(amesh) :
       /\ \A c \in 1..NumCells(amesh) : LocalIndex(amesh.cells[c], d) # 0
       /\ A_cond[<<d, d>>] # Zero
       /\ A[<<d, d>>] = A_cond[<<d, d>>]



=============================================================================
